---- MODULE Spec2Model ----
(***************************************************************************)
(* DOBSS (Decomposed Optimal Bayesian Stackelberg Solver) as implemented   *)
(* in dobss.py: main() reads a game, model() assembles the MILP with PuLP, *)
(* the solver is called, Solution() checks the status and main() decodes   *)
(* and prints the leader strategy.                                         *)
(*                                                                         *)
(* Numbers.  The program works on floats; the model works on a grid:       *)
(*   - a z variable with value v is the real number v / Denom,             *)
(*   - an a variable with value v is the real number v / Denom,            *)
(*   - a probability P[l] with value v is the real number v / Denom,       *)
(*   - payoffs are integers.                                               *)
(* A linear constraint is multiplied through by Denom, so "== 1" reads     *)
(* "= Denom" and so on.  The objective is in units of 1 / (Denom * Denom). *)
(***************************************************************************)
EXTENDS Integers, FiniteSets, Sequences, TLC

VARIABLES pc, L, J, I, R, C, P, problem, milp, sol, z_res, a_res, stdout, err

vars == <<pc, L, J, I, R, C, P, problem, milp, sol, z_res, a_res, stdout, err>>

(* ------------------------------ bounds -------------------------------- *)
MaxTypes == 2
MaxStrategies == 2
Denom == 2

(* --------------------------- program constants ------------------------ *)
M == 1000000

None == "None"

range(n) == 0 .. (n - 1)

(* lpSum(f[k] for k in range(n))                                          *)
RECURSIVE lpSum(_, _)
lpSum(f, n) == IF n <= 0 THEN 0 ELSE f[n - 1] + lpSum(f, n - 1)

(* ------------------------------ input --------------------------------- *)
(* The payoffs typed at the prompts.  An I x J payoff matrix has one of    *)
(* three shapes: a coordination game ([[1,0],[0,1]] on 2 x 2), a ramp      *)
(* 2 + 2j - i ([[2,4],[1,3]] on 2 x 2) and a slide 2 + 2i - j, the ramp's  *)
(* transpose, whose best column is the first whatever the row.  Each type  *)
(* has its own leader matrix and its own follower matrix.                  *)
LeaderShapes == {"coord", "ramp"}
FollowerShapes == {"coord", "slide"}

PayoffEntry(shape, i, j) ==
    CASE shape = "coord" -> IF i = j THEN 1 ELSE 0
      [] shape = "ramp"  -> 2 + 2 * j - i
      [] shape = "slide" -> 2 + 2 * i - j

readPayoffsArray(shapes, nL, nJ, nI) ==
    [l \in range(nL) |-> [i \in range(nI) |-> [j \in range(nJ) |->
        PayoffEntry(shapes[l], i, j)]]]

Problem(nL, nJ, nI, pP, pR, pC) ==
    [L |-> nL, J |-> nJ, I |-> nI, R |-> pR, C |-> pC, P |-> pP]

(* -------------------------- PuLP variables ---------------------------- *)
(* LpVariable.dicts(name, (A, B, C)) creates one variable per element of   *)
(* A x B x C, reached as d[a][b][c] and named name % (a, b, c).            *)
z_keys(p) == {<<l, a, b>> : l \in range(p.L), a \in range(p.J), b \in range(p.I)}
q_keys(p) == {<<l, j>> : l \in range(p.L), j \in range(p.J)}
a_keys(p) == range(p.L)

(* The z variables each routine subscripts, as z_s[k[1]][k[2]][k[3]].      *)
loop_refs(p) == {<<l, i, j>> : l \in range(p.L), i \in range(p.I), j \in range(p.J)}

zs_same_in_row_refs(p) ==
    loop_refs(p) \cup {<<1, ij[1], ij[2]>> : ij \in {<<k[2], k[3]>> : k \in loop_refs(p)}}

z_refs(p) == loop_refs(p) \cup zs_same_in_row_refs(p)

(* model() dies with KeyError when a subscript names no created variable.  *)
model_raises(p) == ~(z_refs(p) \subseteq z_keys(p))

(* ------------------- objective and constraint families ---------------- *)
(* A valuation gives every variable a number: z_s[l][a][b], q_s[l][j],     *)
(* a_s[l].  Each routine below is the conjunction of the constraints the   *)
(* Python routine of the same name adds; X_l is the body of its loop over  *)
(* the follower types.                                                     *)
objective_function(p, z_s) ==
    lpSum([i \in range(p.I) |->
        lpSum([j \in range(p.J) |->
            lpSum([l \in range(p.L) |-> p.P[l] * p.R[l][i][j] * z_s[l][i][j]], p.L)],
              p.J)], p.I)

sum_of_zs_l(p, z_s, l) ==
    lpSum([i \in range(p.I) |-> lpSum([j \in range(p.J) |-> z_s[l][i][j]], p.J)], p.I) = Denom

sum_of_zs(p, z_s) == \A l \in range(p.L) : sum_of_zs_l(p, z_s, l)

zs_sum_by_j_lt_1_l(p, z_s, l) ==
    \A i \in range(p.I) : lpSum([j \in range(p.J) |-> z_s[l][i][j]], p.J) <= Denom

zs_sum_by_j_lt_1(p, z_s) == \A l \in range(p.L) : zs_sum_by_j_lt_1_l(p, z_s, l)

(* Mutant: the link between q and z (">= q") left out.                     *)
zs_sum_by_i_lt_1_no_link(p, z_s, q_s, l) ==
    \A j \in range(p.J) : lpSum([i \in range(p.I) |-> z_s[l][i][j]], p.I) <= Denom

zs_sum_by_i_lt_1_gt_q_l(p, z_s, q_s, l) ==
    \A j \in range(p.J) :
        /\ lpSum([i \in range(p.I) |-> z_s[l][i][j]], p.I) <= Denom
        /\ lpSum([i \in range(p.I) |-> z_s[l][i][j]], p.I) >= q_s[l][j] * Denom

zs_sum_by_i_lt_1_gt_q(p, z_s, q_s) ==
    \A l \in range(p.L) : zs_sum_by_i_lt_1_gt_q_l(p, z_s, q_s, l)

qs_sum_eq_1_l(p, q_s, l) == lpSum([j \in range(p.J) |-> q_s[l][j]], p.J) = 1

qs_sum_eq_1(p, q_s) == \A l \in range(p.L) : qs_sum_eq_1_l(p, q_s, l)

(* a_s[l] - sum_i C[l][i][j] * (sum_h z_s[l][i][h]), times Denom.          *)
follower_gap(p, z_s, a_s, l, j) ==
    a_s[l] - lpSum([i \in range(p.I) |->
                 p.C[l][i][j] * lpSum([h \in range(p.J) |-> z_s[l][i][h]], p.J)], p.I)

(* Mutant: the big-M inequality left out, only "a is an upper bound" kept. *)
most_complex_one_lower_only(p, z_s, q_s, a_s, l) ==
    \A j \in range(p.J) : follower_gap(p, z_s, a_s, l, j) >= 0

most_complex_one_l(p, z_s, q_s, a_s, l) ==
    \A j \in range(p.J) :
        /\ follower_gap(p, z_s, a_s, l, j) >= 0
        /\ follower_gap(p, z_s, a_s, l, j) <= (1 - q_s[l][j]) * M * Denom

most_complex_one(p, z_s, q_s, a_s) ==
    \A l \in range(p.L) : most_complex_one_l(p, z_s, q_s, a_s, l)

(* Mutant: every type compared with itself instead of a reference type.   *)
zs_same_in_row_self(p, z_s, l) ==
    \A i \in range(p.I) :
        lpSum([j \in range(p.J) |-> z_s[l][i][j]], p.J)
            = lpSum([j \in range(p.J) |-> z_s[l][i][j]], p.J)

zs_same_in_row_l(p, z_s, l) ==
    \A i \in range(p.I) :
        lpSum([j \in range(p.J) |-> z_s[l][i][j]], p.J)
            = lpSum([j \in range(p.J) |-> z_s[1][i][j]], p.J)

zs_same_in_row(p, z_s) == \A l \in range(p.L) : zs_same_in_row_l(p, z_s, l)

(* A valuation satisfies the model when it satisfies every family.         *)
Satisfies(p, v) ==
    /\ sum_of_zs(p, v.z_s)
    /\ zs_sum_by_j_lt_1(p, v.z_s)
    /\ zs_sum_by_i_lt_1_gt_q(p, v.z_s, v.q_s)
    /\ qs_sum_eq_1(p, v.q_s)
    /\ most_complex_one(p, v.z_s, v.q_s, v.a_s)
    /\ zs_same_in_row(p, v.z_s)

(* ------------------------------ solver -------------------------------- *)
(* The solver is external.  It searches the valuations within the          *)
(* variables' bounds (z in [0,1], q in {0,1}, a free) for the ones that    *)
(* satisfy the model and returns one with the largest objective.  The      *)
(* search goes type by type (families 2 to 6 constrain one type each) and  *)
(* then keeps the combinations that satisfy the whole model.               *)
c_entries(p, l) == {p.C[l][ij[1]][ij[2]] : ij \in range(p.I) \X range(p.J)}

(* a is unbounded; the search looks one grid step beyond every value a     *)
(* follower payoff can take.                                               *)
a_window(p, l) ==
    LET lo == CHOOSE m \in c_entries(p, l) : \A e \in c_entries(p, l) : m <= e
        hi == CHOOSE m \in c_entries(p, l) : \A e \in c_entries(p, l) : m >= e
    IN  (lo * Denom - 1) .. (hi * Denom + 1)

(* The values of one inner dict z_s[l][a] that family 3 allows.             *)
row_cands(p) ==
    {r \in [range(p.I) -> 0 .. Denom] : lpSum([b \in range(p.I) |-> r[b]], p.I) <= Denom}

z_cands(p, l) ==
    {zl \in [range(p.J) -> row_cands(p)] :
        /\ sum_of_zs_l(p, l :> zl, l)
        /\ zs_sum_by_j_lt_1_l(p, l :> zl, l)}

zq_cands(p, l) ==
    {zq \in z_cands(p, l) \X [range(p.J) -> 0 .. 1] :
        /\ zs_sum_by_i_lt_1_gt_q_l(p, l :> zq[1], l :> zq[2], l)
        /\ qs_sum_eq_1_l(p, l :> zq[2], l)}

type_cands(p, l) ==
    {[z |-> x[1][1], q |-> x[1][2], a |-> x[2]] :
        x \in {y \in zq_cands(p, l) \X a_window(p, l) :
                 most_complex_one_l(p, l :> y[1][1], l :> y[1][2], l :> y[2], l)}}

(* Combinations of the types' candidates, for types 0 .. n-1; a            *)
(* combination that breaks family 7 between two of its types is dropped    *)
(* as soon as both are there.                                              *)
RECURSIVE combos(_, _)
combos(p, n) ==
    IF n = 0 THEN {<<>>}
    ELSE {d \in {c @@ ((n - 1) :> t) : c \in combos(p, n - 1), t \in type_cands(p, n - 1)} :
            1 \in range(n) =>
                \A l \in range(n) : zs_same_in_row_l(p, [k \in range(n) |-> d[k].z], l)}

valuation(p, c) ==
    [z_s |-> [l \in range(p.L) |-> c[l].z],
     q_s |-> [l \in range(p.L) |-> c[l].q],
     a_s |-> [l \in range(p.L) |-> c[l].a]]

(* The constraints read only L, J, I and C of the problem.                 *)
constraint_data(p) == [L |-> p.L, J |-> p.J, I |-> p.I, C |-> p.C]

feasible_of(d) == {v \in {valuation(d, c) : c \in combos(d, d.L)} : Satisfies(d, v)}

(* Every L, J, I, C the prompts can produce and model() accepts, with the  *)
(* valuations that satisfy its model (computed once).                      *)
feasible_table ==
    {<<d, feasible_of(d)>> :
        d \in {x \in UNION {{[L |-> l, J |-> j, I |-> i, C |-> readPayoffsArray(s, l, j, i)] :
                               s \in [range(l) -> FollowerShapes]} :
                            l \in 1 .. MaxTypes, j \in 1 .. MaxStrategies,
                            i \in 1 .. MaxStrategies} :
                 ~model_raises(x)}}

Feasible(p) == (CHOOSE e \in feasible_table : e[1] = constraint_data(p))[2]

Optimal(p) ==
    LET F == Feasible(p)
        objs == {objective_function(p, v.z_s) : v \in F}
        best == CHOOSE b \in objs : \A o \in objs : o <= b
    IN  {v \in F : objective_function(p, v.z_s) = best}

(* What solve() may leave in the problem: the true answer, or no answer    *)
(* (NotSolved when the solver stops early, Undefined when it cannot tell). *)
(* Unbounded is no outcome: every z is at most 1, so the objective is      *)
(* bounded.                                                                *)
(* values is <<>> while the variables hold None, and <<v>> once the        *)
(* solver has stored the valuation v in them.                              *)
solver_outcomes(p) ==
    (IF Feasible(p) = {}
     THEN {[status |-> "Infeasible", values |-> <<>>]}
     ELSE {[status |-> "Optimal", values |-> <<v>>] : v \in Optimal(p)})
    \cup {[status |-> "NotSolved", values |-> <<>>],
          [status |-> "Undefined", values |-> <<>>]}

(* milp.objective.value(): the sum over the terms of the objective, None   *)
(* once a term's variable has no value.  PuLP keeps no term for a product  *)
(* with the number 0, so an objective whose coefficients are all 0 has the *)
(* value 0 even before a solve.                                            *)
objective_value(p, m) ==
    IF m.values # <<>> THEN objective_function(p, m.values[1].z_s)
    ELSE IF \E k \in loop_refs(p) : p.P[k[1]] * p.R[k[1]][k[2]][k[3]] # 0 THEN None
    ELSE 0

(* Solution.__init__'s assertion.                                          *)
Solution_accepts(status) == status = "NotSolved" \/ status = "Optimal"

(* ------------------------------ decoding ------------------------------ *)
(* milp.variables() is sorted by name; the z names in that order, each as  *)
(* the triple of its indices (every index is a single digit here).         *)
z_names(p) ==
    [k \in 1 .. (p.L * p.J * p.I) |->
        <<(k - 1) \div (p.J * p.I), ((k - 1) \div p.I) % p.J, (k - 1) % p.I>>]

(* The loop of main() over the z variables: z_res[i] is the value of the   *)
(* first variable with a non-zero value whose name has i as second index.  *)
RECURSIVE decode_z(_, _, _, _)
decode_z(z_s, names, k, acc) ==
    IF k > Len(names) THEN acc
    ELSE LET n == names[k]
             v == z_s[n[1]][n[2]][n[3]]
         IN  IF v # 0 /\ n[2] \notin DOMAIN acc
             THEN decode_z(z_s, names, k + 1, acc @@ (n[2] :> v))
             ELSE decode_z(z_s, names, k + 1, acc)

(* The probability main() prints for leader strategy i (none printed: 0).  *)
reported(zr, i) == IF i \in DOMAIN zr THEN zr[i] ELSE 0

(* ------------------------------ main() -------------------------------- *)
Init ==
    /\ pc = "readLJI"
    /\ L = None /\ J = None /\ I = None
    /\ R = None /\ C = None /\ P = None
    /\ problem = None /\ milp = None /\ sol = None
    /\ z_res = None /\ a_res = None /\ stdout = None
    /\ err = None

readLJI ==
    /\ pc = "readLJI"
    /\ \E l \in 1 .. MaxTypes, j \in 1 .. MaxStrategies, i \in 1 .. MaxStrategies :
        /\ L' = l /\ J' = j /\ I' = i
    /\ pc' = "readR"
    /\ UNCHANGED <<R, C, P, problem, milp, sol, z_res, a_res, stdout, err>>

readLeaderPayoffs ==
    /\ pc = "readR"
    /\ \E shapes \in [range(L) -> LeaderShapes] : R' = readPayoffsArray(shapes, L, J, I)
    /\ pc' = "readC"
    /\ UNCHANGED <<L, J, I, C, P, problem, milp, sol, z_res, a_res, stdout, err>>

readFollowerPayoffs ==
    /\ pc = "readC"
    /\ \E shapes \in [range(L) -> FollowerShapes] : C' = readPayoffsArray(shapes, L, J, I)
    /\ pc' = "readP"
    /\ UNCHANGED <<L, J, I, R, P, problem, milp, sol, z_res, a_res, stdout, err>>

readProbabilities ==
    /\ pc = "readP"
    /\ P' \in [range(L) -> 0 .. Denom]
    /\ pc' = "Problem"
    /\ UNCHANGED <<L, J, I, R, C, problem, milp, sol, z_res, a_res, stdout, err>>

NewProblem ==
    /\ pc = "Problem"
    /\ problem' = Problem(L, J, I, P, R, C)
    /\ pc' = "model"
    /\ UNCHANGED <<L, J, I, R, C, P, milp, sol, z_res, a_res, stdout, err>>

model ==
    /\ pc = "model"
    /\ IF model_raises(problem)
       THEN /\ err' = "KeyError"
            /\ pc' = "failed"
            /\ milp' = milp
       ELSE /\ milp' = [status |-> "NotSolved", values |-> <<>>]
            /\ pc' = "solve"
            /\ err' = err
    /\ UNCHANGED <<L, J, I, R, C, P, problem, sol, z_res, a_res, stdout>>

solve ==
    /\ pc = "solve"
    /\ milp' \in solver_outcomes(problem)
    /\ pc' = "Solution"
    /\ UNCHANGED <<L, J, I, R, C, P, problem, sol, z_res, a_res, stdout, err>>

NewSolution ==
    /\ pc = "Solution"
    /\ IF Solution_accepts(milp.status)
       THEN /\ sol' = [value |-> objective_value(problem, milp)]
            /\ pc' = "decode"
            /\ err' = err
       ELSE /\ err' = "AssertionError"
            /\ pc' = "failed"
            /\ sol' = sol
    /\ UNCHANGED <<L, J, I, R, C, P, problem, milp, z_res, a_res, stdout>>

(* The rest of main(): print the payoff, run the loop, print the results.  *)
(* With no values (every var.value() is None) the loop fills z_res with    *)
(* None and the first strategy line dies on None * 100.                    *)
decode ==
    /\ pc = "decode"
    /\ IF milp.values = <<>>
       THEN /\ z_res' = [i \in range(problem.J) |-> None]
            /\ a_res' = [l \in range(problem.L) |-> None]
            /\ stdout' = [payoff |-> sol.value, strategy |-> <<>>, followers |-> <<>>]
            /\ err' = "TypeError"
            /\ pc' = "failed"
       ELSE /\ z_res' = decode_z(milp.values[1].z_s, z_names(problem), 1, <<>>)
            /\ a_res' = milp.values[1].a_s
            /\ stdout' = [payoff |-> sol.value, strategy |-> z_res', followers |-> a_res']
            /\ err' = err
            /\ pc' = "done"
    /\ UNCHANGED <<L, J, I, R, C, P, problem, milp, sol>>

Next ==
    \/ readLJI
    \/ readLeaderPayoffs
    \/ readFollowerPayoffs
    \/ readProbabilities
    \/ NewProblem
    \/ model
    \/ solve
    \/ NewSolution
    \/ decode

Spec == Init /\ [][Next]_vars

(* ====================================================================== *)
(*                              properties                                *)
(* ====================================================================== *)
(* model() has been called on the problem (it returned or it raised).      *)
model_called == pc \in {"solve", "Solution", "decode", "done", "failed"}

(* model() returned a model.                                               *)
model_built == model_called /\ err # "KeyError"

(* A GameSpec as the specification defines it: positive counts, one        *)
(* probability in [0,1] per type, summing to 1, R and C of shape L x I x J *)
valid_game(nL, nJ, nI, pP, pR, pC) ==
    /\ nL >= 1 /\ nJ >= 1 /\ nI >= 1
    /\ DOMAIN pP = range(nL)
    /\ \A l \in range(nL) : pP[l] \in 0 .. Denom
    /\ lpSum([l \in range(nL) |-> pP[l]], nL) = Denom
    /\ \A a \in {pR, pC} :
        /\ DOMAIN a = range(nL)
        /\ \A l \in range(nL) :
            /\ DOMAIN a[l] = range(nI)
            /\ \A i \in range(nI) : DOMAIN a[l][i] = range(nJ)

(* The leader's marginal probability of strategy i as type l sees it.      *)
marginal(p, z_s, l, i) == lpSum([j \in range(p.J) |-> z_s[l][i][j]], p.J)

(* Type l's payoff for answering j to the leader strategy of z_s[l].       *)
response_payoff(p, z_s, l, j) ==
    lpSum([i \in range(p.I) |-> p.C[l][i][j] * marginal(p, z_s, l, i)], p.I)

(* C1: for every valid game (any L >= 1), the model is built with family 7 *)
(* comparing every type's leader marginal to one reference type that is a  *)
(* type of the game, and every valuation satisfying the model has the same *)
(* leader marginal for all types.  Stated for I = J, where nothing but     *)
(* family 7 decides it.                                                    *)
C1_OneLeaderStrategyForAllTypes ==
    (model_called /\ valid_game(L, J, I, P, R, C) /\ I = J) =>
        /\ \A k \in zs_same_in_row_refs(problem) : k[1] \in range(problem.L)
        /\ model_built
        /\ \A v \in Feasible(problem) : \A l, m \in range(problem.L) : \A i \in range(problem.I) :
              marginal(problem, v.z_s, l, i) = marginal(problem, v.z_s, m, i)

(* C2: in every valuation that satisfies the built model, a[l] is the      *)
(* largest payoff type l can get against the leader strategy, and the      *)
(* strategy j with q[l][j] = 1 gets it.                                    *)
C2_FollowerPayoffIsBestResponse ==
    pc = "solve" =>
        \A v \in Feasible(problem) : \A l \in range(problem.L) :
            /\ \A j \in range(problem.J) : response_payoff(problem, v.z_s, l, j) <= v.a_s[l]
            /\ \E j \in range(problem.J) : response_payoff(problem, v.z_s, l, j) = v.a_s[l]
            /\ \A j \in range(problem.J) :
                  v.q_s[l][j] = 1 => response_payoff(problem, v.z_s, l, j) = v.a_s[l]

(* A built model with a satisfying valuation in which the leader mixes and *)
(* some type's answers differ in payoff.                                   *)
C2_Witness ==
    /\ pc = "solve"
    /\ \E v \in Feasible(problem) : \E l \in range(problem.L) :
          /\ \E i \in range(problem.I) :
                marginal(problem, v.z_s, l, i) \in 1 .. (Denom - 1)
          /\ \E j \in range(problem.J) : response_payoff(problem, v.z_s, l, j) < v.a_s[l]

(* C3: after an Optimal solve, the probability main() reports for leader   *)
(* strategy i is the sum over j of z[l][i][j] for each type l, and the     *)
(* reported probabilities sum to 1.                                        *)
C3_ReportedStrategyIsMarginal ==
    pc = "done" =>
        /\ \A l \in range(problem.L) : \A i \in range(problem.I) :
              reported(z_res, i) = marginal(problem, milp.values[1].z_s, l, i)
        /\ lpSum([i \in range(problem.I) |-> reported(z_res, i)], problem.I) = Denom

(* A decoded mixed strategy where the loop skipped zero variables of       *)
(* strategy i before it met the one it kept, and two types answer          *)
(* differently.                                                            *)
C3_Witness ==
    /\ pc = "done"
    /\ valid_game(L, J, I, P, R, C)
    /\ \E i \in range(problem.I) :
          /\ reported(z_res, i) \in 1 .. (Denom - 1)
          /\ milp.values[1].z_s[0][i][0] = 0
    /\ \E l, m \in range(problem.L) : milp.values[1].q_s[l] # milp.values[1].q_s[m]

(* The follower strategy type l is marked to answer with.                  *)
best_response(q_s, l) == CHOOSE j \in DOMAIN q_s[l] : q_s[l][j] = 1

(* C4: the objective value of the optimal valuation is the sum over types  *)
(* l and leader strategies i of P[l] * R[l][i][j*(l)] * x[i], with x the   *)
(* decoded leader strategy and j*(l) the one strategy with q[l][j*(l)] = 1 *)
C4_ObjectiveIsPayoffAgainstBestResponses ==
    pc = "done" =>
        /\ \A l \in range(problem.L) :
              Cardinality({j \in range(problem.J) : milp.values[1].q_s[l][j] = 1}) = 1
        /\ sol.value =
              lpSum([l \in range(problem.L) |->
                  lpSum([i \in range(problem.I) |->
                      problem.P[l] * problem.R[l][i][best_response(milp.values[1].q_s, l)]
                          * reported(z_res, i)], problem.I)], problem.L)

(* Two types of positive probability answer differently and the leader     *)
(* gets a positive payoff.                                                 *)
C4_Witness ==
    /\ pc = "done"
    /\ valid_game(L, J, I, P, R, C)
    /\ sol.value > 0
    /\ \E l, m \in range(problem.L) :
          /\ problem.P[l] > 0 /\ problem.P[m] > 0
          /\ best_response(milp.values[1].q_s, l) # best_response(milp.values[1].q_s, m)

(* C5: with one follower type (and I = J) model() builds a model, and      *)
(* family 7 names no type other than type 0.                               *)
C5_SingleTypeBuilds ==
    (model_called /\ problem.L = 1 /\ problem.I = problem.J) =>
        /\ model_built
        /\ \A k \in zs_same_in_row_refs(problem) : k[1] = 0

(* The game of the specification's concrete scenario.                      *)
scenario_game ==
    /\ L = 1 /\ J = 2 /\ I = 2
    /\ P = [l \in {0} |-> Denom]
    /\ R = [l \in {0} |-> [i \in {0, 1} |-> [j \in {0, 1} |-> <<<<2, 4>>, <<1, 3>>>>[i + 1][j + 1]]]]
    /\ C = [l \in {0} |-> [i \in {0, 1} |-> [j \in {0, 1} |-> <<<<1, 0>>, <<0, 1>>>>[i + 1][j + 1]]]]

(* C6: on the scenario game main() ends having reported the leader         *)
(* strategy [1.0, 0.0], with type 0 answering strategy 1 and a leader      *)
(* payoff of 4.0.                                                          *)
C6_ScenarioResult ==
    (pc \in {"done", "failed"} /\ scenario_game) =>
        /\ pc = "done"
        /\ reported(z_res, 0) = Denom /\ reported(z_res, 1) = 0
        /\ milp.values[1].q_s[0][1] = 1
        /\ sol.value = 4 * Denom * Denom

(* C7: no invalid game gets past the construction of Problem.              *)
C7_InvalidGameRejected ==
    pc \notin {"readLJI", "readR", "readC", "readP", "Problem"} => valid_game(L, J, I, P, R, C)

(* C8: a Solution exists only for status Optimal.                          *)
C8_OnlyOptimalIsDecoded ==
    (pc \in {"decode", "done"} \/ (pc = "failed" /\ err = "TypeError")) =>
        milp.status = "Optimal"

(* C9: for every valid game the built model has a satisfying valuation     *)
(* (the objective is bounded because every z is at most 1).                *)
C9_ModelFeasible ==
    (model_called /\ valid_game(L, J, I, P, R, C)) =>
        /\ model_built
        /\ Feasible(problem) # {}

(* C10: model() creates one z variable per (l < L, i < I, j < J), and the  *)
(* objective and the families subscript only created variables.  Stated    *)
(* for L >= 2, where the reference type of family 7 is a type of the game. *)
C10_VariablesCreatedAsUsed ==
    (model_called /\ problem.L >= 2) =>
        /\ z_keys(problem) = loop_refs(problem)
        /\ z_refs(problem) \subseteq z_keys(problem)
        /\ model_built

====
